---- MODULE Spec2Model ----
(***************************************************************************)
(* Cycle runtime (BaseCycle), the shared `schedule` trigger registry and   *)
(* the orchestrator (Agent4) with its per-cycle polling threads.           *)
(*                                                                         *)
(* Time is kept relative: a job carries the number of ticks until its      *)
(* next_run and a sleeping thread the ticks left of its time.sleep(1).     *)
(* One tick is one polling quantum of Agent4._run_cycle.  No code reads    *)
(* the value of last_run (get_status only formats it), so last_run is kept *)
(* as None or Stamp, a timestamp.                                          *)
(*                                                                         *)
(* The message consumers of Agent4._start_message_processor and the        *)
(* recovery ledger of HealthCheckCycle follow the cycle runtime.           *)
(***************************************************************************)
EXTENDS Integers, Sequences, FiniteSets, TLC

\* ---------------------------------------------------------------- bounds
MaxMaxErrors == 2       \* largest max_errors the cycles are configured with
MaxErrorCount == 2      \* cap of error_count (it grows without limit in the code)
MaxJobs == 2            \* cap of the number of jobs ever registered
MaxThreads == 1         \* cap of the live _run_cycle threads per cycle
MaxCalls == 1           \* cap of the direct BaseCycle.start()/stop() calls (SpecDirect)
MaxStarts == 2          \* cap of the Agent4.start() calls
MaxPuts == 2            \* cap of the messages ever put on the queue
MaxAttempts == 4        \* cap of a ledger entry under direct _attempt_recovery calls
MaxTime == 2            \* cap of the polling quanta of an observed run
MaxRun == 4             \* cap of the count of sweeps in a row that leave a system unhealthy

Cycles == {"monitoring", "healthcheck"}
None == "None"
Stamp == "datetime"
Slots == Cycles \X (1..MaxThreads)
\* a thread table with room for the workers of one more Agent4.start()
Workers == Cycles \X (1..(MaxThreads + 1))

VARIABLES
    cycles,         \* Agent4.cycles: the cycles the agent was built with
    is_running,     \* BaseCycle.is_running, per cycle
    last_run,       \* BaseCycle.last_run: None or a timestamp
    error_count,    \* BaseCycle.error_count
    max_errors,     \* BaseCycle.max_errors
    jobs,           \* schedule.default_scheduler.jobs: the shared registry
    agent_running,  \* Agent4.is_running
    message_queue,  \* Agent4.message_queue
    thread,         \* the _run_cycle threads, per slot
    calls,          \* number of direct start()/stop() calls made so far
    halt,           \* history: what last took the cycle from running to stopped
    ev,             \* history: the operation performed by the last step
    starts,         \* number of Agent4.start() calls made so far
    consumer,       \* the process_messages threads, one per Agent4.start()
    puts,           \* number of messages put on the queue so far
    log,            \* history: the calls of _handle_message, in order
    recovery_attempts,  \* HealthCheckCycle.recovery_attempts
    sweep,          \* history: what the last health sweep did, per system
    telegram_bot,   \* the notifier the cycle was built with, or None
    database,       \* the store the cycle was built with, or None
    notices,        \* history: the send_message calls of the last sweep
    window          \* history: the time and the executions of an observed run

\* the consumer side of the agent, and the health-check cycle's own state
mail == <<consumer, puts, log>>
health == <<recovery_attempts, sweep, telegram_bot, database, notices>>

vars == <<cycles, is_running, last_run, error_count, max_errors, jobs,
          agent_running, message_queue, thread, calls, halt, ev,
          starts, mail, health, window>>

\* BaseCycle.interval, in polling quanta: the intervals the tests construct
\* their cycles with (1 and 2 seconds, against the sleep(1) of the loop)
interval == [c \in Cycles |-> IF c = "monitoring" THEN 1 ELSE 2]

\* BaseCycle.name, as the constructors of the cycles set it
name == [c \in Cycles |-> IF c = "monitoring" THEN "Monitoring Cycle"
                          ELSE "Health Check Cycle"]

\* BaseCycle.__init__: self.max_errors = 3
DefaultMaxErrors == 3

NoThread == [pc |-> "none", todo |-> {}, cur |-> 0, nap |-> 0, seen |-> 0]

\* a message: a dict with its 'type', 'cycle' and 'timestamp' (the number of
\* the put stands for datetime.now()), or an object that is not a dict
NoMsg == [dict |-> FALSE, type |-> "-", cycle |-> "-", timestamp |-> 0]
Generations == 1..MaxStarts
NoConsumer == [pc |-> "none", msg |-> NoMsg]

\* an observed run: the quanta that passed since its beginning and the
\* invocations of execute() per cycle, and per cycle the failed invocations
\* that ended since the last one that succeeded; a window that is not open
\* counts nothing
NoWindow == [open |-> FALSE, elapsed |-> 0, runs |-> [c \in Cycles |-> 0],
             streak |-> [c \in Cycles |-> 0]]
observe_tick(win) == IF win.open THEN [win EXCEPT !.elapsed = @ + 1] ELSE win
observe_start(win) ==
    IF win.open
    THEN [win EXCEPT !.elapsed = 0, !.runs = [c \in Cycles |-> 0]]
    ELSE win
observe_run(win, c) == IF win.open THEN [win EXCEPT !.runs[c] = @ + 1] ELSE win
observe_end(win, c, ok) ==
    IF win.open THEN [win EXCEPT !.streak[c] = IF ok THEN 0 ELSE @ + 1] ELSE win

\* the last operation: its name, its cycle, whether the cycle was running
\* before it, the cycle's error_count before it, and whether the step
\* before was a stop of the same cycle
\* (report: what the step returned, when it was a get_status())
NoReport == <<>>
NoEv == [op |-> "-", c |-> "-", ran |-> FALSE, ec |-> 0, again |-> FALSE,
         report |-> NoReport]
Ev(op, c) == [op |-> op, c |-> c, ran |-> is_running[c], ec |-> error_count[c],
              again |-> /\ op = "stop"
                        /\ \/ ev.op = "stop" /\ ev.c = c
                           \/ ev.op = "agent_stop",
              report |-> NoReport]
AgentEv(op) == [NoEv EXCEPT !.op = op, !.ran = agent_running]

\* ------------------------------------------------- the schedule registry
\* a start that registers nothing
every_do_nothing(js, c) == js

\* schedule.every(interval).seconds.do(self._run): a new Job is appended,
\* its next_run one interval ahead
every_do(js, c) == Append(js, [cycle |-> c, due |-> interval[c]])

\* schedule.cancel_job(self._run): the argument is the bound method, not the
\* Job that do() returned; jobs.remove() finds no equal element, the
\* ValueError is swallowed and the registry is left as it was
cancel_job(js, c) == js

\* a registry whose jobs never become due
should_run_never(j) == FALSE

\* Job.should_run: next_run has been reached
should_run(j) == j.due = 0

\* the jobs run_pending() collects: those whose should_run holds
runnable(js) == {i \in 1..Len(js) : should_run(js[i])}

\* a run that sets the next_run of every job of the registry
reschedule_all(js, i) ==
    [k \in 1..Len(js) |-> [js[k] EXCEPT !.due = interval[js[k].cycle]]]

\* Job.run, after job_func returned: _schedule_next_run
reschedule(js, i) == [js EXCEPT ![i].due = interval[js[i].cycle]]

\* ------------------------------------------------------------ BaseCycle
\* the threshold test with > for >=
exceeded_strict(ec, me) == ec > me

\* _run, line 55: the threshold test
exceeded(ec, me) == ec >= me

\* a success that leaves the counter alone
after_success_keep(ec) == ec

\* _run, line 50: the counter after a successful execute()
after_success(ec) == 0

\* _run, line 52: the counter after a failed execute()
after_failure(ec) == ec + 1

\* a _run without its except clause
propagates_failure(ok) == ~ok

\* does _run let the exception of execute() out? (except Exception: no)
propagates(ok) == FALSE

\* a stop() that flips the flag
stopped_toggle(ir, c) == [ir EXCEPT ![c] = ~@]

\* stop(), line 61
stopped(ir, c) == [ir EXCEPT ![c] = FALSE]

\* start(), line 41
started(ir, c) == [ir EXCEPT ![c] = TRUE]

\* history of the running -> stopped transitions
halted(h, ir, c, cause) == IF ir[c] THEN [h EXCEPT ![c] = cause] ELSE h

\* BaseCycle.start(), called directly (as the tests do)
start(c) ==
    /\ calls < MaxCalls
    /\ calls' = calls + 1
    /\ Len(jobs) < MaxJobs
    /\ is_running' = started(is_running, c)
    /\ jobs' = every_do(jobs, c)
    /\ ev' = Ev("start", c)
    /\ window' = observe_start(window)
    /\ UNCHANGED <<cycles, last_run, error_count, max_errors, agent_running,
                   message_queue, thread, halt>>
    /\ UNCHANGED <<starts, mail, health>>

\* BaseCycle.stop(), called directly
stop(c) ==
    /\ calls < MaxCalls
    /\ calls' = calls + 1
    /\ is_running' = stopped(is_running, c)
    /\ jobs' = cancel_job(jobs, c)
    /\ halt' = halted(halt, is_running, c, "stop")
    /\ ev' = Ev("stop", c)
    /\ UNCHANGED <<cycles, last_run, error_count, max_errors, agent_running,
                   message_queue, thread>>
    /\ UNCHANGED <<starts, mail, health, window>>

\* --------------------------------------------------------------- Agent4
FreeSlot(c) == CHOOSE k \in {w[2] : w \in DOMAIN thread} :
                   /\ thread[<<c, k>>].pc = "none"
                   /\ \A m \in 1..(k - 1) : thread[<<c, m>>].pc # "none"

\* _start_message_processor: one more process_messages thread, at the test
\* of its while loop
spawn_consumer(cs, k) == [cs EXCEPT ![k] = [NoConsumer EXCEPT !.pc = "loop"]]

\* Agent4.start(): one thread per cycle, and the message processor
Agent4_start ==
    /\ starts < MaxStarts
    /\ \A c \in cycles : \E w \in DOMAIN thread : w[1] = c /\ thread[w].pc = "none"
    /\ agent_running' = TRUE
    /\ thread' = [w \in DOMAIN thread |->
                    IF w[1] \in cycles /\ w[2] = FreeSlot(w[1])
                    THEN [NoThread EXCEPT !.pc = "start"] ELSE thread[w]]
    /\ starts' = starts + 1
    /\ consumer' = spawn_consumer(consumer, starts + 1)
    /\ ev' = AgentEv("agent_start")
    /\ UNCHANGED <<cycles, calls, is_running, last_run, error_count, max_errors, jobs,
                   message_queue, halt>>
    /\ UNCHANGED <<puts, log, health, window>>

\* datetime.isoformat(): the timestamp as a string
isoformat(t) == IF t = Stamp THEN "isoformat" ELSE t

\* BaseCycle.get_status(): the snapshot of cycle c
get_status(c) ==
    [name |-> name[c],
     running |-> is_running[c],
     last_run |-> IF last_run[c] # None THEN isoformat(last_run[c]) ELSE None,
     error_count |-> error_count[c],
     interval |-> interval[c]]

\* a count of all the cycles, running or not
cycles_running_all(cs, ir) == Cardinality(cs)

\* Agent4.get_status(), line 112: len([c for c in cycles if c.is_running])
cycles_running(cs, ir) == Cardinality({c \in cs : ir[c]})

\* Agent4.get_status(): the report; start_time is set by the first start()
Agent4_get_status ==
    /\ ev' = [NoEv EXCEPT
                !.op = "get_status",
                !.report =
                   [agent |-> [running |-> agent_running,
                               uptime |-> IF starts > 0 THEN "timedelta" ELSE None,
                               cycles_running |-> cycles_running(cycles, is_running)],
                    cycles |-> [c \in cycles |-> get_status(c)]]]
    /\ UNCHANGED <<cycles, calls, is_running, last_run, error_count, max_errors,
                   jobs, agent_running, message_queue, thread, halt, starts,
                   mail, health, window>>

RECURSIVE cancel_all(_, _)
cancel_all(js, S) ==
    IF S = {} THEN js
    ELSE LET c == CHOOSE x \in S : TRUE
         IN cancel_all(cancel_job(js, c), S \ {c})

\* Agent4.stop(): clear the flag, stop every cycle, drain the queue
Agent4_stop ==
    /\ agent_running' = FALSE
    /\ is_running' = [c \in Cycles |-> IF c \in cycles
                                        THEN stopped(is_running, c)[c]
                                        ELSE is_running[c]]
    /\ jobs' = cancel_all(jobs, cycles)
    /\ halt' = [c \in Cycles |-> IF c \in cycles
                                  THEN halted(halt, is_running, c, "stop")[c]
                                  ELSE halt[c]]
    /\ message_queue' = <<>>
    /\ ev' = AgentEv("agent_stop")
    /\ UNCHANGED <<cycles, calls, last_run, error_count, max_errors, thread>>
    /\ UNCHANGED <<starts, mail, health, window>>

\* a loop that never tests the flag
while_test_always(running) == TRUE

\* _run_cycle, line 212, and process_messages, line 230: while self.is_running
while_test(running) == running

\* _run_cycle, line 209: cycle.start()
run_cycle_start(w) ==
    /\ thread[w].pc = "start"
    /\ Len(jobs) < MaxJobs
    /\ is_running' = started(is_running, w[1])
    /\ jobs' = every_do(jobs, w[1])
    /\ thread' = [thread EXCEPT ![w].pc = "poll"]
    /\ ev' = Ev("start", w[1])
    /\ UNCHANGED <<cycles, calls, last_run, error_count, max_errors, agent_running,
                   message_queue, halt>>
    /\ UNCHANGED <<starts, mail, health, window>>

\* _run_cycle, lines 212-213: the loop test and run_pending()'s collection
\* of the runnable jobs
run_pending(w) ==
    /\ thread[w].pc = "poll"
    /\ thread[w].nap = 0
    /\ thread' = [thread EXCEPT ![w] =
                    IF ~while_test(agent_running) THEN [@ EXCEPT !.pc = "finally"]
                    ELSE IF runnable(jobs) = {}
                         THEN [@ EXCEPT !.nap = 1]
                         ELSE [@ EXCEPT !.pc = "run", !.todo = runnable(jobs)]]
    /\ ev' = NoEv
    /\ UNCHANGED <<cycles, calls, is_running, last_run, error_count, max_errors, jobs,
                   agent_running, message_queue, halt>>
    /\ UNCHANGED <<starts, mail, health, window>>

\* run_pending() runs the next collected job: Job.run -> _run -> execute()
\* begins.  Jobs that became due at different times all have due = 0 here,
\* so their sorted() order is any order.
job_run(w) ==
    /\ thread[w].pc = "run"
    /\ thread[w].cur = 0
    /\ \E i \in thread[w].todo :
         /\ thread' = [thread EXCEPT ![w].cur = i, ![w].todo = @ \ {i}]
         /\ ev' = Ev("exec", jobs[i].cycle)
         /\ window' = observe_run(window, jobs[i].cycle)
    /\ UNCHANGED <<cycles, calls, is_running, last_run, error_count, max_errors, jobs,
                   agent_running, message_queue, halt>>
    /\ UNCHANGED <<starts, mail, health>>

\* after the job: the next one, or time.sleep(1) and the loop test again
next_job(t) ==
    IF t.todo = {} THEN [t EXCEPT !.pc = "poll", !.nap = 1, !.cur = 0]
    ELSE [t EXCEPT !.cur = 0]

\* execute() returns (ok) or raises (~ok); the rest of _run and of Job.run
run_end(w, ok) ==
    LET i == thread[w].cur
        c == jobs[i].cycle
        ec == IF ok THEN after_success(error_count[c])
              ELSE after_failure(error_count[c])
        selfstop == ~ok /\ exceeded(ec, max_errors[c])
    IN
    /\ thread[w].pc = "run"
    /\ i # 0
    /\ ok \/ error_count[c] < MaxErrorCount
    /\ error_count' = [error_count EXCEPT ![c] = ec]
    /\ last_run' = IF ok THEN [last_run EXCEPT ![c] = Stamp] ELSE last_run
    /\ is_running' = IF selfstop THEN stopped(is_running, c) ELSE is_running
    /\ halt' = IF selfstop THEN halted(halt, is_running, c, "auto") ELSE halt
    /\ IF propagates(ok)
       THEN \* the exception leaves run_pending(): _run_cycle's except branch
            /\ jobs' = IF selfstop THEN cancel_job(jobs, c) ELSE jobs
            /\ message_queue' = Append(message_queue,
                                       [type |-> "error", cycle |-> w[1],
                                        error |-> "Exception"])
            /\ thread' = [thread EXCEPT ![w] = [NoThread EXCEPT !.pc = "finally"]]
       ELSE /\ jobs' = reschedule(IF selfstop THEN cancel_job(jobs, c) ELSE jobs, i)
            /\ message_queue' = message_queue
            /\ thread' = [thread EXCEPT ![w] = next_job(@)]
    /\ ev' = Ev(IF ok THEN "ok" ELSE "fail", c)
    /\ window' = observe_end(window, c, ok)
    /\ UNCHANGED <<cycles, calls, max_errors, agent_running>>
    /\ UNCHANGED <<starts, mail, health>>

\* _run, line 52, self.error_count += 1, in the two steps the interpreter
\* makes of it.  execute() has raised: the thread reads the counter
run_load(w) ==
    /\ thread[w].pc = "run"
    /\ thread[w].cur # 0
    /\ error_count[jobs[thread[w].cur].cycle] < MaxErrorCount
    /\ thread' = [thread EXCEPT ![w].pc = "incr",
                                ![w].seen = error_count[jobs[thread[w].cur].cycle]]
    /\ ev' = NoEv
    /\ UNCHANGED <<cycles, calls, is_running, last_run, error_count, max_errors, jobs,
                   agent_running, message_queue, halt>>
    /\ UNCHANGED <<starts, mail, health, window>>

\* ... and writes back what it read, plus one; then the threshold test of
\* line 55 and the rest of _run and of Job.run
run_store(w) ==
    LET i == thread[w].cur
        c == jobs[i].cycle
        ec == after_failure(thread[w].seen)
        selfstop == exceeded(ec, max_errors[c])
    IN
    /\ thread[w].pc = "incr"
    /\ error_count' = [error_count EXCEPT ![c] = ec]
    /\ is_running' = IF selfstop THEN stopped(is_running, c) ELSE is_running
    /\ halt' = IF selfstop THEN halted(halt, is_running, c, "auto") ELSE halt
    /\ jobs' = reschedule(IF selfstop THEN cancel_job(jobs, c) ELSE jobs, i)
    /\ thread' = [thread EXCEPT ![w] = next_job([@ EXCEPT !.pc = "run", !.seen = 0])]
    /\ ev' = Ev("fail", c)
    /\ window' = observe_end(window, c, FALSE)
    /\ UNCHANGED <<cycles, calls, last_run, max_errors, agent_running, message_queue>>
    /\ UNCHANGED <<starts, mail, health>>

\* _run_cycle, line 225: finally: cycle.stop(); the thread ends
run_cycle_finally(w) ==
    /\ thread[w].pc = "finally"
    /\ is_running' = stopped(is_running, w[1])
    /\ jobs' = cancel_job(jobs, w[1])
    /\ halt' = halted(halt, is_running, w[1], "stop")
    /\ thread' = [thread EXCEPT ![w] = NoThread]
    /\ ev' = Ev("stop", w[1])
    /\ UNCHANGED <<cycles, calls, last_run, error_count, max_errors, agent_running,
                   message_queue>>
    /\ UNCHANGED <<starts, mail, health, window>>

\* one polling quantum passes
Tick ==
    /\ window.open => window.elapsed < MaxTime
    /\ window' = observe_tick(window)
    /\ jobs' = [i \in 1..Len(jobs) |->
                  [jobs[i] EXCEPT !.due = IF @ > 0 THEN @ - 1 ELSE 0]]
    /\ thread' = [w \in DOMAIN thread |->
                    [thread[w] EXCEPT !.nap = IF @ > 0 THEN @ - 1 ELSE 0]]
    /\ ev' = NoEv
    /\ UNCHANGED <<cycles, calls, is_running, last_run, error_count, max_errors,
                   agent_running, message_queue, halt>>
    /\ UNCHANGED <<starts, mail, health>>

\* ------------------------------------------------ failures of start/stop
\* the message _run_cycle puts in its except branch, lines 218-223
error_message(c, n) ==
    [dict |-> TRUE, type |-> "error", cycle |-> c, timestamp |-> n]

\* _run_cycle, lines 209 and 216-223: cycle.start() raises.  The flag was
\* set on line 41 before do() raised on line 42 (an interval that timedelta
\* does not take); no job is registered, the except branch puts the error
\* message and the thread goes on to its finally clause.
run_cycle_start_raise(w) ==
    /\ thread[w].pc = "start"
    /\ puts < MaxPuts
    /\ is_running' = started(is_running, w[1])
    /\ message_queue' = Append(message_queue, error_message(w[1], puts + 1))
    /\ puts' = puts + 1
    /\ thread' = [thread EXCEPT ![w].pc = "finally"]
    /\ ev' = Ev("start_raise", w[1])
    /\ UNCHANGED <<cycles, calls, last_run, error_count, max_errors, jobs,
                   agent_running, halt, starts, consumer, log, health, window>>

\* the position of a cycle in the dict of _init_cycles
Rank == [c \in Cycles |-> IF c = "monitoring" THEN 1 ELSE 2]

\* a loop over the cycles that an exception ends
tolerates_nothing(f) == FALSE

\* Agent4.stop(), lines 86-90: the try/except inside the loop keeps the
\* exception of one cycle's stop() from leaving the loop
tolerates(f) == TRUE

\* is the stop() of cycle c reached when the stop() of cycle f raises?
reached(c, f) == tolerates(f) \/ Rank[c] < Rank[f]

\* Agent4.stop() in which the stop() of cycle f raises, before (~cleared) or
\* after (cleared) its line 61
Agent4_stop_raise(f, cleared) ==
    /\ agent_running' = FALSE
    /\ is_running' = [c \in Cycles |->
                        IF c \notin cycles THEN is_running[c]
                        ELSE IF c = f THEN is_running[c] /\ ~cleared
                        ELSE IF reached(c, f) THEN stopped(is_running, c)[c]
                        ELSE is_running[c]]
    /\ jobs' = cancel_all(jobs, cycles \ {f})
    /\ halt' = [c \in Cycles |->
                  IF c \in cycles /\ is_running[c] /\ ~is_running'[c]
                  THEN "stop" ELSE halt[c]]
    /\ message_queue' = IF tolerates(f) THEN <<>> ELSE message_queue
    /\ ev' = [AgentEv("agent_stop_raise") EXCEPT !.c = f]
    /\ UNCHANGED <<cycles, calls, last_run, error_count, max_errors, thread,
                   starts, mail, health, window>>

\* _run_cycle, lines 224-225: the finally clause is not inside a try of its
\* own, so what cycle.stop() raises there leaves the thread function
finally_escapes == TRUE

\* _run_cycle, line 225: the cycle.stop() of the finally clause raises, before
\* (~cleared) or after (cleared) its line 61; the thread ends
run_cycle_finally_raise(w, cleared) ==
    /\ thread[w].pc = "finally"
    /\ is_running' = IF cleared THEN stopped(is_running, w[1]) ELSE is_running
    /\ halt' = IF cleared THEN halted(halt, is_running, w[1], "stop") ELSE halt
    /\ thread' = [thread EXCEPT ![w] = NoThread]
    /\ ev' = [NoEv EXCEPT !.op = IF finally_escapes THEN "uncaught"
                                 ELSE "stop_raise",
                          !.c = w[1]]
    /\ UNCHANGED <<cycles, calls, last_run, error_count, max_errors, jobs,
                   agent_running, message_queue, starts, mail, health, window>>

\* ---------------------------------------------------------- the mailbox
Kinds == {"error", "metric", "alert", "unknown"}

\* what a producer can put as its n-th message: a dict of any kind naming
\* its cycle, or something that is not a dict
Messages(n) ==
    {[dict |-> TRUE, type |-> k, cycle |-> c, timestamp |-> n] :
        k \in Kinds, c \in cycles}
    \cup {[NoMsg EXCEPT !.timestamp = n]}

\* message_queue.put(m) by a producer other than _run_cycle
message_queue_put(m) ==
    /\ puts < MaxPuts
    /\ m \in Messages(puts + 1)
    /\ message_queue' = Append(message_queue, m)
    /\ puts' = puts + 1
    /\ ev' = NoEv
    /\ UNCHANGED <<cycles, calls, is_running, last_run, error_count, max_errors,
                   jobs, agent_running, thread, halt, starts, consumer, log,
                   health, window>>

\* a dispatch that sends metric messages to the alert handler
route_crossed(m) ==
    IF m.type = "error" THEN "_handle_error_message"
    ELSE IF m.type = "metric" THEN "_handle_alert_message"
    ELSE IF m.type = "alert" THEN "_handle_alert_message"
    ELSE "dropped"

\* _handle_message, lines 259-266: the handler a dict is given to, "dropped"
\* for the warning of the else branch
route(m) ==
    IF m.type = "error" THEN "_handle_error_message"
    ELSE IF m.type = "metric" THEN "_handle_metric_message"
    ELSE IF m.type = "alert" THEN "_handle_alert_message"
    ELSE "dropped"

\* _handle_message, line 257: message.get raises on what is not a dict
raises(m) == ~m.dict

\* handlers that use their collaborator without testing that it is there
handler_raises_absent(h, bot, db) ==
    \/ h \in {"_handle_error_message", "_handle_alert_message"} /\ bot = None
    \/ h = "_handle_metric_message" /\ db = None

\* _handle_error_message, _handle_metric_message, _handle_alert_message,
\* lines 268-321: each tests its collaborator (if self.telegram_bot, if
\* self.database) and wraps what it does with it in try/except Exception;
\* the reads of the message are dict.get calls
handler_raises(h, bot, db) == FALSE

\* _handle_message(m): the outcome of the call, the handler the message
\* went to or "raised"
handle_message(m) ==
    IF raises(m) THEN "raised"
    ELSE IF handler_raises(route(m), telegram_bot, database) THEN "raised"
    ELSE route(m)

\* a consumer that a failure ends
after_handle_exit(outcome) == IF outcome = "raised" THEN "none" ELSE "loop"

\* process_messages, lines 239-244: after task_done(), or after the
\* except clause that logs the failure, the loop goes on
after_handle(outcome) == "loop"

\* a get that leaves the message on the queue
taken_peek(q) == q

\* Queue.get: the queue without the message it returned
taken(q) == Tail(q)

\* process_messages, line 230: the test of the while loop
consumer_loop(k) ==
    /\ consumer[k].pc = "loop"
    /\ consumer' = [consumer EXCEPT ![k].pc =
                        IF while_test(agent_running) THEN "get" ELSE "none"]
    /\ ev' = NoEv
    /\ UNCHANGED <<cycles, calls, is_running, last_run, error_count, max_errors,
                   jobs, agent_running, message_queue, thread, halt, starts,
                   puts, log, health, window>>

\* process_messages, lines 233 and 241-242: get(timeout=1) returns the
\* oldest message, or raises queue.Empty and the loop continues
consumer_get(k) ==
    /\ consumer[k].pc = "get"
    /\ IF message_queue = <<>>
       THEN /\ consumer' = [consumer EXCEPT ![k].pc = "loop"]
            /\ message_queue' = message_queue
       ELSE /\ consumer' = [consumer EXCEPT ![k] =
                               [pc |-> "handle", msg |-> Head(message_queue)]]
            /\ message_queue' = taken(message_queue)
    /\ ev' = NoEv
    /\ UNCHANGED <<cycles, calls, is_running, last_run, error_count, max_errors,
                   jobs, agent_running, thread, halt, starts, puts, log, health, window>>

\* process_messages, lines 236-244: _handle_message(message), then
\* task_done() or the except clause
consumer_handle(k) ==
    LET m == consumer[k].msg
        outcome == handle_message(m)
    IN
    /\ consumer[k].pc = "handle"
    /\ log' = Append(log, [msg |-> m, outcome |-> outcome])
    /\ consumer' = [consumer EXCEPT ![k] =
                        [NoConsumer EXCEPT !.pc = after_handle(outcome)]]
    /\ ev' = NoEv
    /\ UNCHANGED <<cycles, calls, is_running, last_run, error_count, max_errors,
                   jobs, agent_running, message_queue, thread, halt, starts,
                   puts, health, window>>

\* agent._handle_message(m) called directly
call_handle_message(m) ==
    /\ log' = <<[msg |-> m, outcome |-> handle_message(m)]>>
    /\ ev' = [NoEv EXCEPT !.op = "_handle_message"]
    /\ UNCHANGED <<cycles, calls, is_running, last_run, error_count, max_errors,
                   jobs, agent_running, message_queue, thread, halt, starts,
                   consumer, puts, health, window>>

\* ------------------------------------------------------ HealthCheckCycle
\* the keys of health_status: the integration of _check_api_integrations,
\* the database of _check_databases, a process of _check_running_processes
Systems == {"telegram_bot", "main_db", "process_1"}

\* the order _check_all_systems fills health_status in
SystemOrder == <<"telegram_bot", "main_db", "process_1">>

\* HealthCheckCycle.__init__: self.max_recovery_attempts = 3
max_recovery_attempts == 3

\* what a sweep can find for a system: no key in health_status, or a status
\* with 'healthy' True or False
Findings == {"absent", "healthy", "unhealthy"}

\* self.recovery_attempts.get(system_name, 0)
attempts_of(d, s) == IF s \in DOMAIN d THEN d[s] ELSE 0

\* a write of the ledger that is lost
with_attempts_lost(d, s, n) == d

\* self.recovery_attempts[system_name] = n
with_attempts(d, s, n) ==
    [x \in DOMAIN d \cup {s} |-> IF x = s THEN n ELSE d[x]]

\* an eligibility test that lets the entry pass the cap
should_attempt_recovery_inclusive(d, s) ==
    attempts_of(d, s) <= max_recovery_attempts

\* _should_attempt_recovery, lines 199-200
should_attempt_recovery(d, s) == attempts_of(d, s) < max_recovery_attempts

\* a recovery that counts the attempt and never resets the entry
attempt_recovery_keep(d, s, recovered) ==
    with_attempts(d, s, attempts_of(d, s) + 1)

\* _attempt_recovery: line 213 counts the attempt; line 228 resets the entry
\* when the strategy reported success; a strategy that fails or raises
\* leaves the count
attempt_recovery(d, s, recovered) ==
    LET counted == with_attempts(d, s, attempts_of(d, s) + 1)
    IN IF recovered THEN with_attempts(counted, s, 0) ELSE counted

\* the collaborators the tests build the cycle with: Mock objects
Bot == "Mock"
Db == "Mock"

\* the names _attempt_recovery is called with: the systems of a sweep, and
\* the 'test_system' of test_attempt_recovery
Names == Systems \cup {"test_system"}

\* _attempt_recovery, lines 219-224: the strategy chosen by the name
strategy(s) ==
    IF s = "process_1" THEN "_recover_process"
    ELSE IF s = "main_db" THEN "_recover_database"
    ELSE IF s = "telegram_bot" THEN "_recover_api_integration"
    ELSE "none"

\* how an attempt can go: the strategy returns True, returns False (or there
\* is none and recovered stays False), or raises; "none" is no attempt
Outcomes == {"none", "recovered", "failed", "raised"}

\* the outcomes the strategy of s can have: _recover_process catches three
\* exceptions and lets the others through, _recover_database and
\* _recover_api_integration catch them all, and the latter returns False
\* for a notifier that is None (_test_api_connection, lines 354-355)
outcomes_of(s, bot) ==
    IF strategy(s) = "_recover_process" THEN {"recovered", "failed", "raised"}
    ELSE IF strategy(s) = "_recover_database" THEN {"recovered", "failed"}
    ELSE IF strategy(s) = "_recover_api_integration"
         THEN IF bot = None THEN {"failed"} ELSE {"recovered", "failed"}
    ELSE {"failed"}

\* a recovery that lets the exception of its strategy through
recovery_raises_through(outcome) == outcome = "raised"

\* _attempt_recovery, lines 232-233: except Exception logs, nothing leaves
recovery_raises(outcome) == FALSE

\* an escalation that lets the failure of send_message through
escalation_raises_through(bot, delivers) == bot # None /\ ~delivers

\* _escalate_issue, lines 252-260: send_message is called in a try whose
\* except Exception logs; without a notifier nothing is called
escalation_raises(bot, delivers) == FALSE

\* a handler of failures that escalates every unhealthy system
escalates_always(d, s) == TRUE

\* a handler of failures that gives up silently
escalates_never(d, s) == FALSE

\* _handle_failures, lines 85-89: the else branch, _escalate_issue
escalates(d, s) == ~should_attempt_recovery(d, s)

\* a handler that attempts nothing and writes 0 for every system found
\* healthy
handle_failures_forgiving(d, todo, found, recovered) ==
    [s \in DOMAIN d \cup {x \in Systems : found[x] = "healthy"} |->
        IF found[s] = "healthy" THEN 0 ELSE d[s]]

\* _handle_failures over the systems of todo, in order: the ledger after it
RECURSIVE handle_failures(_, _, _, _)
handle_failures(d, todo, found, recovered) ==
    IF todo = <<>> THEN d
    ELSE LET s == Head(todo)
             d1 == IF found[s] = "unhealthy" /\ should_attempt_recovery(d, s)
                   THEN attempt_recovery(d, s, s \in recovered)
                   ELSE d
         IN handle_failures(d1, Tail(todo), found, recovered)

\* the sweeps in a row, this one included, that found s unhealthy and did
\* not recover it, counted from a ledger entry of 0 and up to MaxRun; -1
\* when s was found healthy in between with its entry above 0
run_of(prev, s, before, unhealthy, outcome) ==
    LET last == IF s \in DOMAIN prev THEN prev[s].run ELSE 0
    IN IF unhealthy /\ outcome # "recovered"
       THEN IF before = 0 THEN 1
            ELSE IF last < 0 THEN -1
            ELSE IF last < MaxRun THEN last + 1 ELSE MaxRun
       ELSE IF outcome = "recovered" \/ before = 0 THEN 0 ELSE -1

\* what the sweep did for system s, the ledger being d when its turn came
\* (no other system's turn changes the entry of s): the finding, the entry
\* before, the entry written by line 213, the calls made, how the attempt
\* went and whether an exception left the call; rested: the sweep before
\* found s healthy with its entry at the cap
handled(d, s, found, result, delivers, bot, prev) ==
    LET unhealthy == found[s] = "unhealthy"
        recovery == unhealthy /\ should_attempt_recovery(d, s)
        escalation == unhealthy /\ escalates(d, s)
    IN [found |-> found[s],
        before |-> IF s \in DOMAIN d THEN d[s] ELSE 0,
        counted |-> IF recovery THEN attempts_of(d, s) + 1 ELSE 0,
        recoveries |-> IF recovery THEN 1 ELSE 0,
        escalations |-> IF escalation THEN 1 ELSE 0,
        outcome |-> IF recovery THEN result[s] ELSE "none",
        raised |-> \/ recovery /\ recovery_raises(result[s])
                   \/ escalation /\ escalation_raises(bot, delivers),
        run |-> run_of(prev, s, attempts_of(d, s), unhealthy,
                       IF recovery THEN result[s] ELSE "none"),
        rested |-> /\ s \in DOMAIN prev
                   /\ prev[s].found = "healthy"
                   /\ prev[s].before >= max_recovery_attempts]

\* what _check_all_systems can find: 'telegram_bot' always has a status,
\* unhealthy without a notifier (_check_api_integrations); 'main_db' has one
\* when there is a store (_check_databases); a process may be there or not
possible(found, bot, db) ==
    /\ found["telegram_bot"] # "absent"
    /\ bot = None => found["telegram_bot"] = "unhealthy"
    /\ db = None <=> found["main_db"] = "absent"

\* the notice of _escalate_issue and the digest of _send_status_report, as
\* calls of send_message
notice(s, delivers) == [chat_id |-> "admin_chat", about |-> s, ok |-> delivers]
digest(found, delivers) ==
    [chat_id |-> "monitoring_chat",
     about |-> <<Cardinality({s \in Systems : found[s] = "healthy"}),
                 Cardinality({s \in Systems : found[s] # "absent"})>>,
     ok |-> delivers]

\* a report that is sent only when some system is unhealthy
status_report_on_failure(bot, found, delivers) ==
    IF bot = None \/ \A s \in Systems : found[s] # "unhealthy" THEN <<>>
    ELSE <<digest(found, delivers)>>

\* _send_status_report, lines 333-342: one send_message when there is a
\* notifier, its failure logged
status_report(bot, found, delivers) ==
    IF bot = None THEN <<>> ELSE <<digest(found, delivers)>>

\* _save_health_check_results, lines 269-291: nothing without a store, and
\* database.execute inside try/except Exception with one
save_raises(db) == FALSE

\* _send_status_report, lines 300-342: the text is built from the 'healthy'
\* and 'message' keys every status has; nothing is sent without a notifier,
\* and send_message is inside try/except Exception with one
report_raises(bot, delivers) == FALSE

\* the send_message calls of _handle_failures over todo, in order
RECURSIVE escalation_notices(_, _, _)
escalation_notices(todo, done, delivers) ==
    IF todo = <<>> THEN <<>>
    ELSE LET s == Head(todo)
             rest == escalation_notices(Tail(todo), done, delivers)
         IN IF done[s].escalations = 1 THEN <<notice(s, delivers)>> \o rest
            ELSE rest

\* HealthCheckCycle.execute(): one sweep that finds `found`, in which the
\* recovery of each system attempted goes as `result` says and the notifier
\* delivers or raises. An exception that left _handle_failures would end the
\* sweep at line 46, before the digest of line 42
execute(found, result, delivers) ==
    LET recovered == {s \in Systems : result[s] = "recovered"}
        done == [s \in Systems |->
                    handled(recovery_attempts, s, found, result, delivers,
                            telegram_bot, sweep)]
        failures == \E s \in Systems : found[s] = "unhealthy"
        aborted == \E s \in Systems : done[s].raised
    IN /\ possible(found, telegram_bot, database)
       /\ telegram_bot = None => delivers
       /\ \A s \in Systems :
            IF found[s] = "unhealthy"
               /\ should_attempt_recovery(recovery_attempts, s)
            THEN result[s] \in outcomes_of(s, telegram_bot)
            ELSE result[s] = "none"
       /\ recovery_attempts' =
             IF failures
             THEN handle_failures(recovery_attempts, SystemOrder, found, recovered)
             ELSE recovery_attempts
       /\ sweep' = done
       /\ notices' =
             IF telegram_bot = None THEN <<>>
             ELSE escalation_notices(SystemOrder, done, delivers)
                  \o (IF aborted THEN <<>>
                      ELSE status_report(telegram_bot, found, delivers))
       /\ ev' = [NoEv EXCEPT !.op =
                     IF \/ aborted
                        \/ save_raises(database)
                        \/ report_raises(telegram_bot, delivers)
                     THEN "execute_raise" ELSE "execute"]
       /\ UNCHANGED <<cycles, calls, is_running, last_run, error_count,
                      max_errors, jobs, agent_running, message_queue, thread,
                      halt, starts, mail, telegram_bot, database, window>>

\* cycle._attempt_recovery(s, status) called directly, as test_attempt_recovery
\* calls it: no eligibility test comes first
call_attempt_recovery(s, outcome) ==
    /\ attempts_of(recovery_attempts, s) < MaxAttempts
    /\ outcome \in outcomes_of(s, telegram_bot)
    /\ recovery_attempts' =
          attempt_recovery(recovery_attempts, s, outcome = "recovered")
    /\ sweep' = [x \in {s} |->
                   [found |-> "unhealthy",
                    before |-> attempts_of(recovery_attempts, s),
                    counted |-> attempts_of(recovery_attempts, s) + 1,
                    recoveries |-> 1,
                    escalations |-> 0,
                    outcome |-> outcome,
                    raised |-> recovery_raises(outcome),
                    run |-> -1,
                    rested |-> FALSE]]
    /\ notices' = <<>>
    /\ ev' = [NoEv EXCEPT !.op = "_attempt_recovery", !.c = s]
    /\ UNCHANGED <<cycles, calls, is_running, last_run, error_count,
                   max_errors, jobs, agent_running, message_queue, thread,
                   halt, starts, mail, telegram_bot, database, window>>

\* cycle._escalate_issue(s, status) called directly, as test_escalate_issue
\* calls it, the notifier delivering or raising
call_escalate_issue(s, delivers) ==
    /\ telegram_bot = None => delivers
    /\ sweep' = [x \in {s} |->
                   [found |-> "unhealthy",
                    before |-> attempts_of(recovery_attempts, s),
                    counted |-> 0,
                    recoveries |-> 0,
                    escalations |-> 1,
                    outcome |-> "none",
                    raised |-> escalation_raises(telegram_bot, delivers),
                    run |-> -1,
                    rested |-> FALSE]]
    /\ notices' = IF telegram_bot = None THEN <<>> ELSE <<notice(s, delivers)>>
    /\ ev' = [NoEv EXCEPT !.op = "_escalate_issue", !.c = s]
    /\ UNCHANGED <<cycles, calls, is_running, last_run, error_count,
                   max_errors, jobs, agent_running, message_queue, thread,
                   halt, starts, mail, recovery_attempts, telegram_bot,
                   database, window>>

\* the state after construction of an agent whose cycles are S, max_errors
\* left at its default or set as the tests set it
InitTable(S, W) ==
    /\ cycles = S
    /\ calls = 0
    /\ is_running = [c \in Cycles |-> FALSE]
    /\ last_run = [c \in Cycles |-> None]
    /\ error_count = [c \in Cycles |-> 0]
    /\ \E n \in (1..MaxMaxErrors) \cup {DefaultMaxErrors} :
         max_errors = [c \in Cycles |-> n]
    /\ jobs = <<>>
    /\ agent_running = FALSE
    /\ message_queue = <<>>
    /\ thread = [w \in W |-> NoThread]
    /\ halt = [c \in Cycles |-> "none"]
    /\ ev = NoEv
    /\ starts = 0
    /\ consumer = [k \in Generations |-> NoConsumer]
    /\ puts = 0
    /\ log = <<>>
    /\ recovery_attempts = <<>>
    /\ sweep = <<>>
    /\ notices = <<>>

InitWith(S) == InitTable(S, Slots)

\* Agent4._init_telegram and _init_database return None: the agent's cycles
\* are built without a notifier and without a store
Detached == telegram_bot = None /\ database = None

Init == InitWith({"monitoring"}) /\ Detached /\ window = NoWindow

\* the agent and its threads
Next ==
    \/ Agent4_start
    \/ Agent4_stop
    \/ \E w \in Slots : run_cycle_start(w)
    \/ \E w \in Slots : run_pending(w)
    \/ \E w \in Slots : job_run(w)
    \/ \E w \in Slots : \E ok \in BOOLEAN : run_end(w, ok)
    \/ \E w \in Slots : run_cycle_finally(w)
    \/ Tick

Spec == Init /\ [][Next]_vars

\* the agent, its threads, and a caller of BaseCycle.start()/stop()
NextDirect ==
    \/ \E c \in cycles : start(c)
    \/ \E c \in cycles : stop(c)
    \/ Next

SpecDirect == Init /\ [][NextDirect]_vars

\* the agent with its consumers and producers, within one polling quantum:
\* no time passes, so no job becomes due and no sleeping thread wakes.  The
\* steps left out (Tick, job_run, run_end) leave the queue, the consumers and
\* Agent4.is_running as they are.
ConsumerStep(k) == consumer_loop(k) \/ consumer_get(k) \/ consumer_handle(k)

\* the start and the stop of the agent and of its cycle threads, with the
\* failures of cycle.start() and cycle.stop()
LifeNext ==
    \/ Agent4_start
    \/ Agent4_stop
    \/ \E f \in cycles : \E cleared \in BOOLEAN : Agent4_stop_raise(f, cleared)
    \/ \E w \in Slots : run_cycle_start(w)
    \/ \E w \in Slots : run_cycle_start_raise(w)
    \/ \E w \in Slots : run_pending(w)
    \/ \E w \in Slots : run_cycle_finally(w)
    \/ \E w \in Slots : \E cleared \in BOOLEAN : run_cycle_finally_raise(w, cleared)

\* the state after construction of the agent with both cycles, max_errors
\* at its default
LifeInit ==
    /\ InitWith(Cycles)
    /\ Detached
    /\ window = NoWindow
    /\ max_errors = [c \in Cycles |-> DefaultMaxErrors]

LifeSpec == LifeInit /\ [][LifeNext]_vars

\* the same with the producers and the consumers of the queue
MailNext ==
    \/ Agent4_start
    \/ Agent4_stop
    \/ \E w \in Slots : run_cycle_start(w)
    \/ \E w \in Slots : run_cycle_start_raise(w)
    \/ \E w \in Slots : run_pending(w)
    \/ \E w \in Slots : run_cycle_finally(w)
    \/ \E m \in Messages(puts + 1) : message_queue_put(m)
    \/ \E k \in Generations : consumer_loop(k)
    \/ \E k \in Generations : consumer_get(k)
    \/ \E k \in Generations : consumer_handle(k)

\* the state after construction, max_errors at its default
MailInit == Init /\ max_errors = [c \in Cycles |-> DefaultMaxErrors]

MailSpec == MailInit /\ [][MailNext]_vars

\* every consumer thread gets to run
FairMailSpec == MailSpec /\ \A k \in Generations : WF_vars(ConsumerStep(k))

\* the health-check cycle, sweep after sweep
\* the inputs of a sweep: what _check_all_systems can find, and how the
\* recoveries the sweep attempts can go
Found ==
    {[telegram_bot |-> a, main_db |-> b, process_1 |-> c] :
        a \in IF telegram_bot = None THEN {"unhealthy"} ELSE {"healthy", "unhealthy"},
        b \in IF database = None THEN {"absent"} ELSE {"healthy", "unhealthy"},
        c \in Findings}

Results(found) ==
    LET O(s) == IF found[s] = "unhealthy"
                   /\ should_attempt_recovery(recovery_attempts, s)
                THEN outcomes_of(s, telegram_bot) ELSE {"none"}
    IN {[telegram_bot |-> a, main_db |-> b, process_1 |-> c] :
           a \in O("telegram_bot"), b \in O("main_db"), c \in O("process_1")}

\* a caller of BaseCycle.start() and stop(), observed from its start() on,
\* beside the agent
WaitInit ==
    /\ InitWith({"monitoring"})
    /\ Detached
    /\ max_errors = [c \in Cycles |-> DefaultMaxErrors]
    /\ window = [NoWindow EXCEPT !.open = TRUE]

WaitSpec == WaitInit /\ [][NextDirect]_vars

\* the agent with its two cycles, observed from its construction on, every
\* execute() succeeding
PollNext ==
    \/ Agent4_start
    \/ \E w \in Slots : run_cycle_start(w)
    \/ \E w \in Slots : run_pending(w)
    \/ \E w \in Slots : job_run(w)
    \/ \E w \in Slots : run_end(w, TRUE)
    \/ Tick

PollInit ==
    /\ InitWith(Cycles)
    /\ Detached
    /\ max_errors = [c \in Cycles |-> DefaultMaxErrors]
    /\ window = [NoWindow EXCEPT !.open = TRUE]

PollSpec == PollInit /\ [][PollNext]_vars

\* the agent with its two cycles observed from its construction on, an
\* execute() succeeding or failing, the increment of the counter in its two
\* steps
RaceNext ==
    \/ Agent4_start
    \/ \E w \in Slots : run_cycle_start(w)
    \/ \E w \in Slots : run_pending(w)
    \/ \E w \in Slots : job_run(w)
    \/ \E w \in Slots : run_end(w, TRUE)
    \/ \E w \in Slots : run_load(w)
    \/ \E w \in Slots : run_store(w)
    \/ Tick

RaceSpec == PollInit /\ [][RaceNext]_vars

\* the agent with its two cycles, an execute() succeeding or failing, the
\* cycles built to disable themselves on their first failure
PairNext ==
    \/ Agent4_start
    \/ \E w \in Slots : run_cycle_start(w)
    \/ \E w \in Slots : run_pending(w)
    \/ \E w \in Slots : job_run(w)
    \/ \E w \in Slots : \E ok \in BOOLEAN : run_end(w, ok)
    \/ Tick
    \/ Agent4_get_status

PairInit ==
    /\ InitWith(Cycles)
    /\ Detached
    /\ max_errors = [c \in Cycles |-> 1]
    /\ window = NoWindow

PairSpec == PairInit /\ [][PairNext]_vars

\* Agent4.start() and Agent4.stop() called in any order, the worker threads
\* of every start() at the steps of _run_cycle that do not run a job
RestartNext ==
    \/ Agent4_start
    \/ Agent4_stop
    \/ \E w \in Workers : run_cycle_start(w)
    \/ \E w \in Workers : run_pending(w)
    \/ \E w \in Workers : run_cycle_finally(w)
    \/ Tick

RestartInit ==
    /\ InitTable({"monitoring"}, Workers)
    /\ Detached
    /\ max_errors = [c \in Cycles |-> DefaultMaxErrors]
    /\ window = NoWindow

RestartSpec == RestartInit /\ [][RestartNext]_vars

HealthNext ==
    \E found \in Found : \E result \in Results(found) :
        \E delivers \in (IF telegram_bot = None THEN {TRUE} ELSE BOOLEAN) :
            execute(found, result, delivers)

\* the state after construction of a cycle built, as the tests build it, with
\* or without a notifier and a store; max_errors at its default
HealthInit ==
    /\ InitWith({"monitoring"})
    /\ max_errors = [c \in Cycles |-> DefaultMaxErrors]
    /\ telegram_bot \in {None, Bot}
    /\ database \in {None, Db}
    /\ window = NoWindow

\* the agent and the health-check cycle as Agent4 builds them, without a
\* notifier and without a store: sweeps, and messages handled
DegradedNext ==
    \/ HealthNext
    \/ \E m \in Messages(1) : call_handle_message(m)

DegradedSpec == MailInit /\ [][DegradedNext]_vars

\* the methods of the cycle called one at a time, as its tests call them
UnitNext ==
    \/ \E s \in Names : \E outcome \in Outcomes : call_attempt_recovery(s, outcome)
    \/ \E s \in Names : \E delivers \in BOOLEAN : call_escalate_issue(s, delivers)

UnitSpec == HealthInit /\ [][UnitNext]_vars

HealthSpec == HealthInit /\ [][HealthNext]_vars

\* fairness: time passes, and the threads that can run are not all held
\* back for ever
ThreadStep(w) ==
    \/ run_cycle_start(w)
    \/ run_pending(w)
    \/ job_run(w)
    \/ \E ok \in BOOLEAN : run_end(w, ok)
    \/ run_cycle_finally(w)

\* the state after construction, max_errors at its default
FairInit == Init /\ max_errors = [c \in Cycles |-> DefaultMaxErrors]

FairSpec ==
    /\ FairInit
    /\ [][Next]_vars
    /\ WF_vars(Tick)
    /\ WF_vars(\E w \in Slots : ThreadStep(w))

\* the agent with its cycle threads and its consumers, time passing; every
\* thread that can take a step takes it in the end
StopNext ==
    \/ Next
    \/ \E w \in Slots : run_cycle_start_raise(w)
    \/ \E k \in Generations : consumer_loop(k)
    \/ \E k \in Generations : consumer_get(k)
    \/ \E k \in Generations : consumer_handle(k)

WorkerStep(w) == ThreadStep(w) \/ run_cycle_start_raise(w)

StopSpec ==
    /\ FairInit
    /\ [][StopNext]_vars
    /\ WF_vars(Tick)
    /\ \A w \in Slots : WF_vars(WorkerStep(w))
    /\ \A k \in Generations : WF_vars(ConsumerStep(k))

\* ------------------------------------------------------------- claims
JobsOf(js, c) == {i \in 1..Len(js) : js[i].cycle = c}

\* some thread is in the polling loop of a running agent
Polling == agent_running /\ \E w \in Slots : thread[w].pc \in {"poll", "run"}

\* C1: once max_errors consecutive executions have failed (the cycle stopped
\* itself and start() has not been called since), execute() is not invoked
\* for that cycle
C1_NoExecuteAfterMaxErrors ==
    ~(ev.op = "exec" /\ ~ev.ran /\ halt[ev.c] = "auto")

\* C2: when a failing execution brings error_count to max_errors or above,
\* is_running is false when that _run returns
C2_SelfStop ==
    (ev.op = "fail" /\ error_count[ev.c] >= max_errors[ev.c])
        => ~is_running[ev.c]

C2_Witness ==
    /\ ev.op = "fail"
    /\ ev.ran
    /\ error_count[ev.c] >= max_errors[ev.c]
    /\ ~is_running[ev.c]
    /\ halt[ev.c] = "auto"

\* C3: after a successful execution through _run, error_count is 0
C3_SuccessResets == ev.op = "ok" => error_count[ev.c] = 0

C3_Witness == ev.op = "ok" /\ ev.ec > 0 /\ error_count[ev.c] = 0

\* C4: every failing execution puts exactly one 'error' message of that cycle
\* on the message queue
C4_FailurePutsMessage ==
    [][ev'.op = "fail" =>
         /\ Len(message_queue') = Len(message_queue) + 1
         /\ message_queue'[Len(message_queue')].type = "error"
         /\ message_queue'[Len(message_queue')].cycle = ev'.c]_vars

\* C5: a failure of execute() does not leave _run (the polling thread stays
\* in its loop and nothing is put on the queue); while error_count stays
\* below max_errors, is_running is as before and the jobs stay registered,
\* every job of the cycle due again within one interval
C5_FailureContained ==
    [][ev'.op = "fail" =>
         /\ message_queue' = message_queue
         /\ \A w \in Slots : thread[w].pc = "run" => thread'[w].pc \in {"run", "poll"}
         /\ error_count'[ev'.c] < max_errors[ev'.c] =>
              /\ is_running'[ev'.c] = is_running[ev'.c]
              /\ Len(jobs') = Len(jobs)
              /\ \A i \in 1..Len(jobs) :
                   /\ jobs'[i].cycle = jobs[i].cycle
                   /\ jobs'[i].due <= interval[jobs[i].cycle]]_vars

C5_Witness ==
    /\ ev.op = "fail"
    /\ ev.ran
    /\ error_count[ev.c] < max_errors[ev.c]
    /\ is_running[ev.c]
    /\ JobsOf(jobs, ev.c) # {}
    /\ \E w \in Slots : thread[w].pc \in {"run", "poll"}

\* C6: start() on a running cycle changes nothing: is_running stays true and
\* no further job is registered
C6_StartIdempotent ==
    [][(ev'.op = "start" /\ ev'.ran) =>
         /\ is_running'[ev'.c]
         /\ jobs' = jobs]_vars

\* C7: an explicit stop() of a running cycle cancels its trigger, and
\* execute() is not invoked for the cycle until start() is called again
C7_StopCancels ==
    /\ (ev.op = "stop" /\ ev.ran) => JobsOf(jobs, ev.c) = {}
    /\ ~(ev.op = "exec" /\ ~ev.ran /\ halt[ev.c] = "stop")

\* C8: a second consecutive stop() leaves is_running, error_count, last_run
\* and the registry as the first one left them
C8_StopIdempotent ==
    [][(ev'.op = "stop" /\ ev'.again) =>
         /\ is_running' = is_running
         /\ error_count' = error_count
         /\ last_run' = last_run
         /\ jobs' = jobs]_vars

C8_Witness == ev.op = "stop" /\ ev.again /\ ~ev.ran /\ ~is_running[ev.c]

\* C9: after stop() followed by start() the cycle is running, and unless it
\* is stopped again or the polling ends, execute() is invoked again
Restarted(c) == ev.op = "start" /\ ev.c = c /\ ~ev.ran /\ halt[c] = "stop"

ExecuteInvoked(c) == ev.op = "exec" /\ ev.c = c

C9_RestartResumes ==
    /\ [](\A c \in Cycles : Restarted(c) => is_running[c])
    /\ \A c \in Cycles :
         Restarted(c) ~> (ExecuteInvoked(c) \/ ~is_running[c] \/ ~Polling)

C9_Witness ==
    /\ ev.op = "exec"
    /\ ev.ran
    /\ halt[ev.c] = "stop"
    /\ Cardinality(JobsOf(jobs, ev.c)) >= 2

\* C10: a _run invoked while is_running is false is a no-op: execute() is
\* not called, last_run and error_count stay as they are
C10_TriggerNoOpWhenStopped ==
    [][/\ ev'.op = "exec" => ev'.ran
       /\ (ev'.op \in {"ok", "fail"} /\ ~ev'.ran) =>
             /\ last_run' = last_run
             /\ error_count' = error_count]_vars

\* C11: when the start of a cycle raises, Agent4.start() ends with a full
\* stop(): Agent4.is_running is false and no other cycle is running
C11_StartFailureStopsAgent ==
    ev.op = "start_raise" =>
        /\ ~agent_running
        /\ \A c \in cycles \ {ev.c} : ~is_running[c]

\* C12: whenever the agent is stopped, no cycle is running and the queue is
\* empty
C12_StoppedMeansAllStopped ==
    ~agent_running =>
        /\ \A c \in cycles : ~is_running[c]
        /\ message_queue = <<>>

\* C13: an Agent4.stop() in which the stop() of one cycle raises still stops
\* every other cycle, empties the queue and leaves Agent4.is_running false
C13_StopToleratesFailure ==
    [][ev'.op = "agent_stop_raise" =>
         /\ ~agent_running'
         /\ message_queue' = <<>>
         /\ \A c \in cycles \ {ev'.c} : ~is_running'[c]]_vars

C13_Witness ==
    /\ ev.op = "agent_stop_raise"
    /\ ev.ran
    /\ ev.c = "monitoring"
    /\ is_running["monitoring"]
    /\ ~is_running["healthcheck"]
    /\ halt["healthcheck"] = "stop"
    /\ puts > 0
    /\ message_queue = <<>>

Handling == {k \in Generations : consumer[k].pc = "handle"}

\* C14: at most one message is being handled at any time
C14_OneMessageAtATime == Cardinality(Handling) <= 1

\* C15: every dict message handled went to the handler of its kind, and a
\* dict of another kind was dropped without raising, whatever was handled
\* before it
C15_DispatchByKind ==
    \A i \in 1..Len(log) :
        LET m == log[i].msg
            h == log[i].outcome
        IN m.dict =>
             /\ m.type = "error" => h = "_handle_error_message"
             /\ m.type = "metric" => h = "_handle_metric_message"
             /\ m.type = "alert" => h = "_handle_alert_message"
             /\ m.type \notin {"error", "metric", "alert"} => h = "dropped"

C15_Witness ==
    /\ Len(log) = 2
    /\ log[1].msg.type = "unknown"
    /\ log[1].outcome = "dropped"
    /\ log[2].msg.type = "metric"
    /\ log[2].outcome = "_handle_metric_message"

InQueue(i) == \E p \in 1..Len(message_queue) : message_queue[p].timestamp = i
Held(i) == \E k \in Generations :
              consumer[k].pc = "handle" /\ consumer[k].msg.timestamp = i
Logged(i) == \E p \in 1..Len(log) : log[p].msg.timestamp = i
HasRaised == \E p \in 1..Len(log) : log[p].outcome = "raised"

\* C16: a consumer whose _handle_message raised is back at its loop, and
\* after a failure every queued message is handled unless the agent stops
C16_ConsumerSurvivesFailure ==
    /\ [][\A k \in Generations :
            (consumer[k].pc = "handle" /\ raises(consumer[k].msg)
               /\ consumer'[k] # consumer[k]) => consumer'[k].pc = "loop"]_vars
    /\ \A i \in 1..MaxPuts :
         (HasRaised /\ InQueue(i)) ~> (Logged(i) \/ ~agent_running)

C16_Witness ==
    /\ starts = 1
    /\ agent_running
    /\ Len(log) = 2
    /\ log[1].outcome = "raised"
    /\ log[2].outcome = "_handle_error_message"
    /\ consumer[1].pc \in {"loop", "get"}

\* the places message i is in: a position of the queue, a consumer, a
\* position of the log
Places(i) ==
    Cardinality({p \in 1..Len(message_queue) : message_queue[p].timestamp = i})
    + Cardinality({k \in Generations :
                     consumer[k].pc = "handle" /\ consumer[k].msg.timestamp = i})
    + Cardinality({p \in 1..Len(log) : log[p].msg.timestamp = i})

\* C17: a message is never in two places (queued, held by a consumer,
\* handled), a handled message stays handled once, a message leaves the
\* queue unhandled only when Agent4.stop() discards it, and a message queued
\* while the agent is running is handled unless the agent stops
C17_ExactlyOnce ==
    /\ [][\A i \in 1..MaxPuts :
            /\ Places(i)' <= 1
            /\ Logged(i) => Logged(i)'
            /\ (Places(i) = 1 /\ ev'.op \notin {"agent_stop", "agent_stop_raise"})
                 => Places(i)' = 1]_vars
    /\ \A i \in 1..MaxPuts :
         /\ (InQueue(i) /\ agent_running) ~> (Logged(i) \/ ~agent_running)
         /\ Held(i) ~> Logged(i)

C17_Witness ==
    /\ starts = 2
    /\ agent_running
    /\ consumer[1].pc # "none"
    /\ consumer[2].pc # "none"
    /\ puts = 2
    /\ Len(log) = 2
    /\ log[1].msg.timestamp = 1
    /\ log[2].msg.timestamp = 2

\* C18: the messages of one producing cycle are handled in the order of
\* their puts
C18_OrderPerProducer ==
    \A a, b \in 1..Len(log) :
        (a < b /\ log[a].msg.dict /\ log[b].msg.dict
           /\ log[a].msg.cycle = log[b].msg.cycle)
        => log[a].msg.timestamp < log[b].msg.timestamp

\* C19: every entry of recovery_attempts, and every count a sweep wrote on
\* the way, is between 0 and max_recovery_attempts
C19_LedgerBounded ==
    /\ \A s \in DOMAIN recovery_attempts :
         recovery_attempts[s] \in 0..max_recovery_attempts
    /\ \A s \in DOMAIN sweep : sweep[s].counted \in 0..max_recovery_attempts

C19_Witness ==
    /\ sweep # <<>>
    /\ \E s \in DOMAIN recovery_attempts :
         /\ recovery_attempts[s] = max_recovery_attempts
         /\ sweep[s].found = "unhealthy"
         /\ sweep[s].before = max_recovery_attempts
         /\ sweep[s].recoveries = 0

\* C20: a sweep makes one call for every unhealthy system, a recovery
\* attempt exactly when the entry before (0 when absent) is below
\* max_recovery_attempts and an escalation otherwise, and none for the others
C20_RecoverOrEscalate ==
    \A s \in DOMAIN sweep :
        LET eligible == sweep[s].before < max_recovery_attempts
        IN IF sweep[s].found = "unhealthy"
           THEN /\ sweep[s].recoveries + sweep[s].escalations = 1
                /\ sweep[s].recoveries = 1 <=> eligible
           ELSE sweep[s].recoveries + sweep[s].escalations = 0

C20_Witness ==
    /\ sweep # <<>>
    /\ \E s, t \in DOMAIN sweep :
         /\ sweep[s].found = "unhealthy"
         /\ sweep[s].before = max_recovery_attempts
         /\ sweep[s].escalations = 1
         /\ sweep[t].found = "unhealthy"
         /\ sweep[t].before = 0
         /\ t \notin DOMAIN recovery_attempts \/ recovery_attempts[t] <= 1
         /\ sweep[t].recoveries = 1

\* C21: a recovery attempt whose strategy succeeds leaves the entry of the
\* system at 0, whatever the entry was before, and the system is eligible
\* for automatic recovery again
C21_SuccessResets ==
    \A s \in DOMAIN sweep :
        sweep[s].outcome = "recovered" =>
            /\ s \in DOMAIN recovery_attempts
            /\ recovery_attempts[s] = 0
            /\ should_attempt_recovery(recovery_attempts, s)

\* a sweep recovered a system whose entry was just below the cap
C21_Witness ==
    \E s \in DOMAIN sweep :
        /\ ev.op = "execute"
        /\ sweep[s].outcome = "recovered"
        /\ sweep[s].before = max_recovery_attempts - 1
        /\ sweep[s].counted = max_recovery_attempts

\* C22: a call of _attempt_recovery whose strategy returns False, raises, or
\* does not exist for the name adds exactly 1 to the entry of that system,
\* leaves every other entry as it was, and raises nothing
C22_FailureCountsOnce ==
    [][(ev'.op = "_attempt_recovery"
        /\ sweep'[ev'.c].outcome \in {"failed", "raised"}) =>
          /\ attempts_of(recovery_attempts', ev'.c)
                = attempts_of(recovery_attempts, ev'.c) + 1
          /\ \A x \in Names \ {ev'.c} :
                /\ x \in DOMAIN recovery_attempts' <=> x \in DOMAIN recovery_attempts
                /\ attempts_of(recovery_attempts', x)
                      = attempts_of(recovery_attempts, x)
          /\ ~sweep'[ev'.c].raised]_vars

\* the second failed attempt on a name without a strategy, another system
\* having an entry of its own
C22_Witness ==
    /\ ev.op = "_attempt_recovery"
    /\ ev.c = "test_system"
    /\ strategy(ev.c) = "none"
    /\ sweep[ev.c].outcome = "failed"
    /\ recovery_attempts["test_system"] = 2
    /\ attempts_of(recovery_attempts, "process_1") = 1

C24_EscalationNeverRaises ==
    [][ev'.op = "_escalate_issue" =>
          /\ sweep'[ev'.c].escalations = 1
          /\ ~sweep'[ev'.c].raised
          /\ recovery_attempts' = recovery_attempts]_vars

\* _escalate_issue was called for a system at the cap and send_message raised
C24_Witness ==
    /\ ev.op = "_escalate_issue"
    /\ telegram_bot # None
    /\ notices = <<notice(ev.c, FALSE)>>
    /\ attempts_of(recovery_attempts, ev.c) = max_recovery_attempts

\* the digests among the calls of send_message
Digests == {i \in 1..Len(notices) : notices[i].chat_id = "monitoring_chat"}

\* C25: a sweep of a cycle that has a notifier sends exactly one status
\* digest, after the notices of the failure handling, whatever the sweep
\* found and did
C25_OneDigestPerSweep ==
    (ev.op = "execute" /\ telegram_bot # None) =>
        /\ Cardinality(Digests) = 1
        /\ Len(notices) \in Digests

\* a sweep that attempted a recovery and issued an escalation, and sent the
\* digest after the notice
C25_Witness ==
    /\ ev.op = "execute"
    /\ telegram_bot # None
    /\ \E s \in DOMAIN sweep : sweep[s].recoveries = 1
    /\ \E s \in DOMAIN sweep : sweep[s].escalations = 1
    /\ Len(notices) = 2
    /\ notices[1].chat_id = "admin_chat"
    /\ notices[2].chat_id = "monitoring_chat"

\* C26: with the cycles of the agent run for T quanta, every execute()
\* succeeding, no cycle is executed more than floor(T / interval) + 1 times
\* (the upper half of "within floor(T / interval) +- 1")
C26_ExecutionCount ==
    window.open =>
        \A c \in cycles :
            window.runs[c] <= (window.elapsed \div interval[c]) + 1

\* C27: execute() of a cycle is only ever invoked by the thread that
\* _run_cycle started for that cycle
C27_OwnWorkerOnly ==
    \A w \in Slots :
        (thread[w].pc = "run" /\ thread[w].cur # 0) =>
            jobs[thread[w].cur].cycle = w[1]

\* C28: the step in which a cycle disables itself on reaching max_errors
\* leaves Agent4.is_running as it was, and leaves is_running, error_count,
\* last_run and the registered jobs of every other cycle as they were
C28_AutoDisableIsLocal ==
    [][(ev'.op = "fail" /\ is_running[ev'.c] /\ ~is_running'[ev'.c]) =>
          /\ agent_running' = agent_running
          /\ \A d \in Cycles \ {ev'.c} :
                /\ is_running'[d] = is_running[d]
                /\ error_count'[d] = error_count[d]
                /\ last_run'[d] = last_run[d]
          /\ Len(jobs') = Len(jobs)
          /\ \A i \in 1..Len(jobs) :
                jobs[i].cycle # ev'.c => jobs'[i] = jobs[i]]_vars

\* a cycle has just disabled itself while the agent and the other cycle,
\* which has run and has its job waiting, go on
C28_Witness ==
    /\ ev.op = "fail"
    /\ ev.ran
    /\ ~is_running[ev.c]
    /\ halt[ev.c] = "auto"
    /\ agent_running
    /\ \E d \in cycles \ {ev.c} :
          /\ is_running[d]
          /\ last_run[d] = Stamp
          /\ \E i \in 1..Len(jobs) : jobs[i].cycle = d /\ jobs[i].due = 1

\* C29: no exception leaves a _run_cycle thread or the consumer thread: a
\* failure of cycle.start(), of message handling or of the final
\* cycle.stop() ends up in the log or in an error message
C29_NothingEscapes == ev.op # "uncaught"

\* every _run_cycle thread and every consumer thread has left its loop
AllExited ==
    /\ \A w \in Slots : thread[w].pc = "none"
    /\ \A k \in Generations : consumer[k].pc = "none"

\* C30: after Agent4.stop(), unless start() is called again, every cycle
\* thread and every consumer sees the cleared flag and leaves its loop
C30_WorkersExitAfterStop == (~agent_running) ~> (agent_running \/ AllExited)

\* the agent has been stopped with a cycle thread in an execute() and a
\* consumer waiting in get()
C30_Witness ==
    /\ ev.op = "agent_stop"
    /\ ev.ran
    /\ ~agent_running
    /\ \E w \in Slots : thread[w].pc = "run" /\ thread[w].cur # 0
    /\ \E k \in Generations : consumer[k].pc = "get"

\* C31: without a notifier and without a store, the handler of every kind
\* of message, and the escalation, the saving of the results and the status
\* report of a sweep, raise nothing: execute() does not fail
C31_AbsentCollaboratorsTolerated ==
    (telegram_bot = None /\ database = None) =>
        /\ ev.op # "execute_raise"
        /\ \A s \in DOMAIN sweep : ~sweep[s].raised
        /\ \A i \in 1..Len(log) : log[i].msg.dict => log[i].outcome # "raised"

\* an alert has been handled, and a sweep has escalated the notifier that
\* is not there
C31_Witness ==
    /\ telegram_bot = None
    /\ database = None
    /\ ev.op = "execute"
    /\ sweep["telegram_bot"].escalations = 1
    /\ notices = <<>>
    /\ Len(log) = 1
    /\ log[1].msg.type = "alert"
    /\ log[1].outcome = "_handle_alert_message"

\* C32: Agent4.get_status() changes no state, and its report has
\* cycles_running equal to the number of cycles whose is_running is true,
\* and for each cycle its name, running, last_run, error_count and interval
C32_StatusIsSnapshot ==
    [][ev'.op = "get_status" =>
          /\ UNCHANGED <<cycles, calls, is_running, last_run, error_count,
                         max_errors, jobs, agent_running, message_queue, thread,
                         halt, starts, mail, health, window>>
          /\ ev'.report.agent.running = agent_running
          /\ ev'.report.agent.cycles_running
                = Cardinality({c \in cycles : is_running[c]})
          /\ DOMAIN ev'.report.cycles = cycles
          /\ \A c \in cycles :
                LET r == ev'.report.cycles[c]
                IN /\ r.name = name[c]
                   /\ r.running = is_running[c]
                   /\ (r.last_run = None) <=> (last_run[c] = None)
                   /\ r.error_count = error_count[c]
                   /\ r.interval = interval[c]]_vars

\* a report taken while one cycle runs, having executed, and the other has
\* disabled itself
C32_Witness ==
    /\ ev.op = "get_status"
    /\ ev.report.agent.running
    /\ ev.report.agent.cycles_running = 1
    /\ \E c \in cycles :
          /\ ev.report.cycles[c].running
          /\ ev.report.cycles[c].last_run # None
    /\ \E c \in cycles :
          /\ ~ev.report.cycles[c].running
          /\ ev.report.cycles[c].error_count = max_errors[c]

\* C33: start() on a cycle that was stopped, by stop() or by disabling
\* itself, sets is_running, registers a job due one interval ahead, and
\* leaves error_count and last_run as they were
C33_RestartKeepsCounters ==
    [][(ev'.op = "start" /\ ~is_running[ev'.c]
        /\ halt[ev'.c] \in {"stop", "auto"}) =>
          /\ is_running'[ev'.c]
          /\ error_count' = error_count
          /\ last_run' = last_run
          /\ Len(jobs') = Len(jobs) + 1
          /\ jobs'[Len(jobs')] = [cycle |-> ev'.c, due |-> interval[ev'.c]]]_vars

\* a cycle that had disabled itself has been started again, its error_count
\* still at max_errors
C33_Witness ==
    /\ ev.op = "start"
    /\ ~ev.ran
    /\ halt[ev.c] = "auto"
    /\ is_running[ev.c]
    /\ error_count[ev.c] = max_errors[ev.c]
    /\ ev.ec = max_errors[ev.c]

\* C34: once more than one interval has passed since a caller's start(),
\* the caller doing nothing but wait (the agent is not started), execute()
\* has been invoked and last_run is set
C34_ExecutedWithinInterval ==
    \A c \in cycles :
        (window.open /\ starts = 0 /\ calls > 0 /\ is_running[c]
         /\ window.elapsed > interval[c]) =>
            /\ window.runs[c] >= 1
            /\ last_run[c] # None

\* C35: a sweep neither creates nor changes the ledger entry of a system it
\* does not find unhealthy: a system found healthy again keeps its count,
\* and one that has no entry gets none
C35_HealthyEntriesUntouched ==
    [][ev'.op = "execute" =>
          \A s \in Systems :
              sweep'[s].found # "unhealthy" =>
                  /\ s \in DOMAIN recovery_attempts' <=> s \in DOMAIN recovery_attempts
                  /\ attempts_of(recovery_attempts', s)
                        = attempts_of(recovery_attempts, s)]_vars

\* a sweep found healthy a system with two attempts in the ledger, and
\* another one unhealthy, which it attempted to recover
C35_Witness ==
    /\ ev.op = "execute"
    /\ \E s \in DOMAIN sweep :
          /\ sweep[s].found = "healthy"
          /\ sweep[s].before = 2
          /\ attempts_of(recovery_attempts, s) = 2
    /\ \E s \in DOMAIN sweep : sweep[s].recoveries = 1
    /\ \E s \in Systems : sweep[s].found = "healthy" /\ s \notin DOMAIN recovery_attempts

\* C36: after any sequence of start() and stop() calls the registry holds at
\* most one periodic job per cycle
C36_AtMostOneJobPerCycle ==
    \A c \in cycles : Cardinality(JobsOf(jobs, c)) <= 1

\* the cycle threads of cycle c that were started and have not returned
Alive(c) == {w \in DOMAIN thread : w[1] = c /\ thread[w].pc # "none"}

\* C37: for any sequence of Agent4.start() and Agent4.stop() calls, at most
\* one worker thread per cycle is alive at any time
C37_OneWorkerPerCycle ==
    \A c \in cycles : Cardinality(Alive(c)) <= 1

\* the threads that are inside an invocation of _run of cycle c
Running(c) ==
    {w \in DOMAIN thread :
        /\ thread[w].pc = "run"
        /\ thread[w].cur # 0
        /\ jobs[thread[w].cur].cycle = c}

\* C38: no two invocations of the same cycle's _run, and so of its
\* execute(), are in progress at the same time
C38_NoConcurrentRuns ==
    \A c \in cycles : Cardinality(Running(c)) <= 1

\* C39: in every state the error_count of a cycle is the number of its
\* executions that failed since the last one that succeeded, whatever the
\* interleaving of the workers
C39_CountIsFailureStreak ==
    window.open => \A c \in cycles : error_count[c] = window.streak[c]

\* C40: a sweep that begins with the entry of a system at
\* max_recovery_attempts leaves the entry as it is and the system ineligible
\* for recovery, whether it finds the system healthy or not, and escalates
\* the system without retrying when it finds it unhealthy
C40_CapIsPermanent ==
    [][ev'.op = "execute" =>
          \A s \in Systems :
              attempts_of(recovery_attempts, s) >= max_recovery_attempts =>
                  /\ attempts_of(recovery_attempts', s)
                        = attempts_of(recovery_attempts, s)
                  /\ ~should_attempt_recovery(recovery_attempts', s)
                  /\ sweep'[s].found = "unhealthy" =>
                        /\ sweep'[s].escalations = 1
                        /\ sweep'[s].recoveries = 0]_vars

\* a system at the cap was found healthy by one sweep and unhealthy by the
\* next, which escalated it and left its entry at the cap
C40_Witness ==
    \E s \in DOMAIN sweep :
        /\ ev.op = "execute"
        /\ sweep[s].rested
        /\ sweep[s].found = "unhealthy"
        /\ sweep[s].before = max_recovery_attempts
        /\ sweep[s].escalations = 1
        /\ attempts_of(recovery_attempts, s) = max_recovery_attempts

====
